---- MODULE Spec2Model ----
(***************************************************************************)
(* AI-Content-Generator: the tRPC router (src/unnamed/part_002), the       *)
(* storage accessor (src/server/db.ts) and the relational schema           *)
(* (src/unnamed/part_001) as a state machine.                               *)
(*                                                                         *)
(* Encoding of JavaScript values:                                          *)
(*   - an optional string is the string itself or Undefined / Null;        *)
(*   - "a row or undefined" (result.length > 0 ? result[0] : undefined)    *)
(*     is a sequence of length 0 or 1, as is an optional number;           *)
(*   - numeric ids are the row's position in its table (AUTO_INCREMENT,    *)
(*     rows are never deleted).                                            *)
(***************************************************************************)
EXTENDS Integers, Sequences, FiniteSets, TLC

VARIABLES
    DATABASE_URL,   \* process.env.DATABASE_URL: "unset", "valid" or "malformed"
    _db,            \* db.ts: the lazily created drizzle handle is non-null
    users,          \* table users
    projects,       \* table projects
    generatedContent, \* table generatedContent
    templates,      \* table templates
    reqs,           \* requests suspended at an await of generate / regenerate
    resp,           \* the outcome of the call that completed last
    llmCalls,       \* number of invokeLLM invocations so far
    regenDone,      \* per content row: regenerations completed successfully
    calls           \* number of calls started so far

vars == <<DATABASE_URL, _db, users, projects, generatedContent, templates,
          reqs, resp, llmCalls, regenDone, calls>>

\* ------------------------------------------------------------------ bounds

\* Calls started in one behaviour.
MaxCalls == 2

\* ------------------------------------------------------------- JS values

Undefined == "undefined"
Null == "null"
Absent == <<>>
Some(x) == <<x>>

\* The request context: ctx.user is null (Absent) or the session's user.
UserIds == {1, 2}
Contexts == {[user |-> Absent]} \cup {[user |-> Some([id |-> u])] : u \in UserIds}

\* JavaScript truthiness of an optional string.
Truthy(v) == v \notin {Undefined, Null, ""}

\* a || b on optional strings.
JsOr(a, b) == IF Truthy(a) THEN a ELSE b

\* a && b: JavaScript yields b when a is truthy, else a.  The operands here
\* are drizzle SQL condition objects, which are always truthy.
JsAnd(a, b) == IF a.truthy THEN b ELSE a

\* obj with the own properties of updates written over it.
Assign(obj, updates) ==
    [f \in DOMAIN obj |-> IF f \in DOMAIN updates THEN updates[f] ELSE obj[f]]

\* result.length > 0 ? result[0] : undefined
FirstOrUndefined(result) == IF Len(result) > 0 THEN Some(result[1]) ELSE Absent

\* ------------------------------------------------------ storage accessor

\* getDb: the handle after the call.  drizzle() throwing on a malformed URL
\* is caught and leaves the handle null.
GetDb(db, url) ==
    IF ~db /\ url # "unset" THEN url = "valid" ELSE db

\* drizzle eq(column, value): an SQL condition object.
Eq(column, value) == [truthy |-> TRUE, column |-> column, value |-> value]

\* A row satisfies an eq condition.
Holds(cond, row) == row[cond.column] = cond.value

GetUserProjects(db, userId) ==
    IF ~db THEN <<>>
    ELSE LET Test(p) == Holds(Eq("userId", userId), p) IN SelectSeq(projects, Test)

GetProjectById(db, projectId) ==
    IF ~db THEN Absent
    ELSE LET Test(p) == Holds(Eq("id", projectId), p)
         IN FirstOrUndefined(SelectSeq(projects, Test))

\* ProjectRow with the owner taken from the row's own id.
ProjectRowOwnerFromId(userId, name, description, contentType) ==
    [id |-> Len(projects) + 1, userId |-> Len(projects) + 1, name |-> name,
     description |-> description, contentType |-> contentType]

\* The row INSERT INTO projects stores: id is AUTO_INCREMENT.
ProjectRow(userId, name, description, contentType) ==
    [id |-> Len(projects) + 1, userId |-> userId, name |-> name,
     description |-> description, contentType |-> contentType]

\* CreateProject without the check of the handle.
CreateProjectUnguarded(db, userId, name, description, contentType) ==
    [threw |-> FALSE,
     table |-> Append(projects, ProjectRow(userId, name, description, contentType))]

\* createProject: [threw, table] -- throws when the handle is null.
CreateProject(db, userId, name, description, contentType) ==
    IF ~db THEN [threw |-> TRUE, table |-> projects]
    ELSE [threw |-> FALSE,
          table |-> Append(projects, ProjectRow(userId, name, description, contentType))]

GetProjectContent(db, projectId) ==
    IF ~db THEN <<>>
    ELSE LET Test(c) == Holds(Eq("projectId", projectId), c)
         IN SelectSeq(generatedContent, Test)

\* `version` int NOT NULL DEFAULT 1
DefaultVersion == 1

\* The row INSERT INTO generatedContent stores: version is left to its
\* column default, an undefined templateId is stored as NULL (Absent).
ContentRow(projectId, title, content, prompt, templateId) ==
    [id |-> Len(generatedContent) + 1, projectId |-> projectId,
     templateId |-> templateId, title |-> title, content |-> content,
     prompt |-> prompt, status |-> "draft", version |-> DefaultVersion]

CreateGeneratedContent(db, projectId, title, content, prompt, templateId) ==
    IF ~db THEN [threw |-> TRUE, table |-> generatedContent]
    ELSE [threw |-> FALSE,
          table |-> Append(generatedContent,
                           ContentRow(projectId, title, content, prompt, templateId))]

\* GetContentById without the WHERE clause: the first stored row.
GetContentByIdAny(db, contentId) ==
    IF ~db THEN Absent ELSE FirstOrUndefined(generatedContent)

GetContentById(db, contentId) ==
    IF ~db THEN Absent
    ELSE LET Test(c) == Holds(Eq("id", contentId), c)
         IN FirstOrUndefined(SelectSeq(generatedContent, Test))

\* drizzle's .set(values) rejects a set with no defined value
\* (Error "No values to set") before any statement is sent.
SetIsEmpty(updates) == DOMAIN updates = {}

\* updateGeneratedContent: UPDATE ... SET updates WHERE id = contentId.
\* An id that matches no row updates nothing and does not throw.
UpdateGeneratedContent(db, contentId, updates) ==
    IF ~db \/ SetIsEmpty(updates) THEN [threw |-> TRUE, table |-> generatedContent]
    ELSE [threw |-> FALSE,
          table |-> [i \in DOMAIN generatedContent |->
                        IF Holds(Eq("id", contentId), generatedContent[i])
                        THEN Assign(generatedContent[i], updates)
                        ELSE generatedContent[i]]]

PublicValue == 1

GetTemplates(db) ==
    IF ~db THEN <<>>
    ELSE LET Test(t) == Holds(Eq("isPublic", PublicValue), t) IN SelectSeq(templates, Test)

\* The condition the where callback of getTemplatesByType returns.
TemplatesByTypeWhere(contentType) ==
    JsAnd(Eq("contentType", contentType), Eq("isPublic", PublicValue))

GetTemplatesByType(db, contentType) ==
    IF ~db THEN <<>>
    ELSE LET Test(t) == Holds(TemplatesByTypeWhere(contentType), t)
         IN SelectSeq(templates, Test)

\* ENV.ownerOpenId: the configured owner identity.
OwnerOpenId == "owner"

TextFields == {"name", "email", "loginMethod"}

\* upsertUser's `values`: openId, each text field that is not undefined
\* (null kept as null), lastSignedIn (now when not given), and role when
\* given or when the user is the configured owner.
UpsertValues(user) ==
    LET given == {f \in TextFields : user[f] # Undefined}
        role == IF user.role # Undefined THEN {"role"}
                ELSE IF user.openId = OwnerOpenId THEN {"role"} ELSE {}
    IN [f \in {"openId", "lastSignedIn"} \cup given \cup role |->
           IF f = "openId" THEN user.openId
           ELSE IF f = "lastSignedIn"
                THEN (IF Truthy(user.lastSignedIn) THEN user.lastSignedIn ELSE "now")
           ELSE IF f = "role"
                THEN (IF user.role # Undefined THEN user.role ELSE "admin")
           ELSE user[f]]

\* upsertUser's `updateSet`; when empty, lastSignedIn = now is put in it.
UpsertUpdateSet(user) ==
    LET given == {f \in TextFields : user[f] # Undefined}
        seen == IF user.lastSignedIn # Undefined THEN {"lastSignedIn"} ELSE {}
        role == IF user.role # Undefined THEN {"role"}
                ELSE IF user.openId = OwnerOpenId THEN {"role"} ELSE {}
        keys == given \cup seen \cup role
    IN IF keys = {} THEN [f \in {"lastSignedIn"} |-> "now"]
       ELSE [f \in keys |->
                IF f = "role"
                THEN (IF user.role # Undefined THEN user.role ELSE "admin")
                ELSE user[f]]

\* A users row with the column defaults.
UserDefaults ==
    [id |-> Len(users) + 1, openId |-> "", name |-> Null, email |-> Null,
     loginMethod |-> Null, role |-> "user", lastSignedIn |-> "now"]

\* upsertUser: [threw, table].  A missing openId throws; a null handle logs a
\* warning and returns; otherwise INSERT ... ON DUPLICATE KEY UPDATE on openId.
UpsertUser(db, user) ==
    IF ~Truthy(user.openId) THEN [threw |-> TRUE, table |-> users]
    ELSE IF ~db THEN [threw |-> FALSE, table |-> users]
    ELSE IF \E i \in DOMAIN users : users[i].openId = user.openId
         THEN [threw |-> FALSE,
               table |-> [i \in DOMAIN users |->
                             IF users[i].openId = user.openId
                             THEN Assign(users[i], UpsertUpdateSet(user))
                             ELSE users[i]]]
         ELSE [threw |-> FALSE,
               table |-> Append(users, Assign(UserDefaults, UpsertValues(user)))]

\* ------------------------------------------------------------ procedures

\* Tier with projects.get declared public.
TierGetPublic(op) ==
    IF op \in {"auth.me", "auth.logout", "templates.list", "templates.listByType",
               "projects.get"}
    THEN "public" ELSE "protected"

\* The tier each procedure of appRouter is declared with.
Tier(op) ==
    IF op \in {"auth.me", "auth.logout", "templates.list", "templates.listByType"}
    THEN "public" ELSE "protected"

\* protectedProcedure: a call without an identity is rejected before the
\* procedure body runs.
RequireUser(ctx) == ctx.user # Absent

\* Whether a call reaches its procedure body.
Authorized(op, ctx) == Tier(op) = "public" \/ RequireUser(ctx)

\* The outcome of a call.
Resp(op, ctx, input, code, result, snap) ==
    [op |-> op, ctx |-> ctx, input |-> input, code |-> code,
     result |-> result, snap |-> snap]

Success == [success |-> TRUE]

\* SystemPrompt with the length clause appended before the tone clause.
SystemPromptLengthFirst(contentType, tone, length) ==
    LET base == "You are an expert content creator. Generate high-quality "
                    \o contentType \o " content."
        withLength == IF Truthy(length) THEN base \o " Keep it " \o length \o "." ELSE base
    IN IF Truthy(tone) THEN withLength \o " Use a " \o tone \o " tone." ELSE withLength

\* The system prompt of generate and regenerate.
SystemPrompt(contentType, tone, length) ==
    LET base == "You are an expert content creator. Generate high-quality "
                    \o contentType \o " content."
        withTone == IF Truthy(tone) THEN base \o " Use a " \o tone \o " tone." ELSE base
    IN IF Truthy(length) THEN withTone \o " Keep it " \o length \o "." ELSE withTone

\* invokeLLM's answers: a text, no choice at all, a null content, a content
\* made of parts (not a string).
LLMResponses ==
    { [choices |-> <<[message |-> [content |-> [type |-> "string", text |-> "Hello"]]]>>],
      [choices |-> <<>>],
      [choices |-> <<[message |-> [content |-> [type |-> "null", text |-> ""]]]>>],
      [choices |-> <<[message |-> [content |-> [type |-> "array", text |-> "Hello"]]]>>] }

Fallback == "No content generated"

\* GeneratedText without the typeof test.
GeneratedTextUntyped(response) ==
    IF Len(response.choices) = 0 THEN Fallback
    ELSE response.choices[1].message.content.text

\* response.choices[0]?.message.content, then the typeof test.
GeneratedText(response) ==
    IF Len(response.choices) = 0 THEN Fallback
    ELSE LET messageContent == response.choices[1].message.content
         IN IF messageContent.type = "string" THEN messageContent.text ELSE Fallback

\* ---------------------------------------------------------------- inputs

ProjectInputs ==
    { [name |-> "Blog", description |-> Undefined, contentType |-> "blog"],
      [name |-> "Feed", description |-> "daily", contentType |-> "social"] }

\* Ids of a table's rows, and one id that matches no row.
IdsOf(table) == 1..(Len(table) + 1)

Styles ==
    { [tone |-> Undefined, length |-> Undefined],
      [tone |-> "casual", length |-> "short"] }

GenerateInputs ==
    { [projectId |-> p, title |-> "T", prompt |-> "write about X",
       templateId |-> t, tone |-> st.tone, length |-> st.length] :
        p \in IdsOf(projects), t \in {Absent}, st \in Styles }

UpdateInputs ==
    { [id |-> i, content |-> c, title |-> t, status |-> st] :
        i \in IdsOf(generatedContent), c \in {Undefined, "Edited"},
        t \in {Undefined, "T2"}, st \in {Undefined, "published"} }

RegenerateInputs ==
    { [id |-> i, prompt |-> "new", tone |-> st.tone, length |-> st.length] :
        i \in IdsOf(generatedContent), st \in Styles }

\* A value z.string().optional() admits: left out, the empty string, a word.
OptionalStrings(word) == {Undefined, "", word}

\* tone and length of a call: neither, a tone only, both, an empty tone with
\* a length.
OptionalStyles ==
    { [tone |-> Undefined, length |-> Undefined],
      [tone |-> "casual", length |-> Undefined],
      [tone |-> "casual", length |-> "short"],
      [tone |-> "", length |-> "short"] }

StyledGenerateInputs ==
    { [projectId |-> p, title |-> "T", prompt |-> "write about X",
       templateId |-> Absent, tone |-> st.tone, length |-> st.length] :
        p \in IdsOf(projects), st \in OptionalStyles }

StyledRegenerateInputs ==
    { [id |-> i, prompt |-> "new", tone |-> st.tone, length |-> st.length] :
        i \in IdsOf(generatedContent), st \in OptionalStyles }

UserInputs ==
    { [openId |-> o, name |-> n, email |-> Undefined, loginMethod |-> Undefined,
       role |-> Undefined, lastSignedIn |-> Undefined] :
        o \in {"", OwnerOpenId}, n \in {Undefined, "Ann"} }

\* ------------------------------------------------------------------ state

\* What earlier runs may have stored: a project of user 1 and a project of
\* user 2, each with one generated draft.
SeedProjects ==
    << [id |-> 1, userId |-> 1, name |-> "Blog", description |-> Null,
        contentType |-> "blog"],
       [id |-> 2, userId |-> 2, name |-> "Feed", description |-> "daily",
        contentType |-> "social"] >>

SeedContent ==
    << [id |-> 1, projectId |-> 1, templateId |-> Absent, title |-> "T",
        content |-> "Old content", prompt |-> "Old prompt", status |-> "draft",
        version |-> DefaultVersion],
       [id |-> 2, projectId |-> 2, templateId |-> Absent, title |-> "T",
        content |-> "Old content", prompt |-> "Old prompt", status |-> "draft",
        version |-> DefaultVersion] >>

SeedTemplates ==
    << [id |-> 1, name |-> "Blog Template", contentType |-> "blog", isPublic |-> 1],
       [id |-> 2, name |-> "Social Template", contentType |-> "social", isPublic |-> 1],
       [id |-> 3, name |-> "Private Template", contentType |-> "blog", isPublic |-> 0] >>

NoResp == Resp("none", [user |-> Absent], <<>>, "OK", <<>>, Absent)

\* The process starts with no handle; the database holds what earlier runs
\* stored: nothing, or the seed rows.
Init ==
    /\ DATABASE_URL \in {"unset", "valid", "malformed"}
    /\ _db = FALSE
    /\ users = <<>>
    /\ \E seeded \in BOOLEAN :
          /\ projects = IF seeded THEN SeedProjects ELSE <<>>
          /\ generatedContent = IF seeded THEN SeedContent ELSE <<>>
          /\ regenDone = IF seeded THEN <<0, 0>> ELSE <<>>
    /\ templates = SeedTemplates
    /\ reqs = <<>>
    /\ resp = NoResp
    /\ llmCalls = 0
    /\ calls = 0

\* A call starts.
Start == calls < MaxCalls /\ calls' = calls + 1

tables == <<users, projects, generatedContent, templates, regenDone>>

\* A protected call without identity: UNAUTHORIZED, nothing else happens.
Reject(op, ctx, input) ==
    /\ resp' = Resp(op, ctx, input, "UNAUTHORIZED", <<>>, Absent)
    /\ UNCHANGED <<DATABASE_URL, _db, tables, reqs, llmCalls>>

\* A call that only reads through the storage accessor.
Read(op, ctx, input, result) ==
    /\ resp' = Resp(op, ctx, input, "OK", result, Absent)
    /\ UNCHANGED <<DATABASE_URL, tables, reqs, llmCalls>>

\* reqs without its i-th element.
Remove(seq, i) == SubSeq(seq, 1, i - 1) \o SubSeq(seq, i + 1, Len(seq))

\* auth.me
AuthMeCall(ctx, input) ==
    /\ Start
    /\ IF ~Authorized("auth.me", ctx) THEN Reject("auth.me", ctx, input)
       ELSE /\ resp' = Resp("auth.me", ctx, input, "OK", ctx.user, Absent)
            /\ UNCHANGED <<DATABASE_URL, _db, tables, reqs, llmCalls>>

\* auth.logout: clears the session cookie.
AuthLogoutCall(ctx, input) ==
    /\ Start
    /\ IF ~Authorized("auth.logout", ctx) THEN Reject("auth.logout", ctx, input)
       ELSE /\ resp' = Resp("auth.logout", ctx, input, "OK", <<Success>>, Absent)
            /\ UNCHANGED <<DATABASE_URL, _db, tables, reqs, llmCalls>>

\* projects.list
ProjectsListCall(ctx, input) ==
    /\ Start
    /\ IF ~Authorized("projects.list", ctx) THEN Reject("projects.list", ctx, input)
       ELSE /\ _db' = GetDb(_db, DATABASE_URL)
            /\ Read("projects.list", ctx, input, GetUserProjects(_db', ctx.user[1].id))

\* projects.create
ProjectsCreateCall(ctx, input) ==
    /\ Start
    /\ IF ~Authorized("projects.create", ctx)
       THEN Reject("projects.create", ctx, input)
       ELSE /\ _db' = GetDb(_db, DATABASE_URL)
            /\ LET r == CreateProject(_db', ctx.user[1].id, input.name,
                                      JsOr(input.description, Null), input.contentType)
               IN /\ projects' = r.table
                  /\ resp' = Resp("projects.create", ctx, input,
                                  IF r.threw THEN "INTERNAL_SERVER_ERROR" ELSE "OK",
                                  IF r.threw THEN <<>> ELSE <<Success>>, Absent)
            /\ UNCHANGED <<DATABASE_URL, users, generatedContent, templates,
                           regenDone, reqs, llmCalls>>

\* projects.get
ProjectsGetCall(ctx, input) ==
    /\ Start
    /\ IF ~Authorized("projects.get", ctx) THEN Reject("projects.get", ctx, input)
       ELSE /\ _db' = GetDb(_db, DATABASE_URL)
            /\ Read("projects.get", ctx, input, GetProjectById(_db', input.id))

\* content.listByProject
ContentListByProjectCall(ctx, input) ==
    /\ Start
    /\ IF ~Authorized("content.listByProject", ctx)
       THEN Reject("content.listByProject", ctx, input)
       ELSE /\ _db' = GetDb(_db, DATABASE_URL)
            /\ Read("content.listByProject", ctx, input,
                    GetProjectContent(_db', input.projectId))

\* content.get
ContentGetCall(ctx, input) ==
    /\ Start
    /\ IF ~Authorized("content.get", ctx) THEN Reject("content.get", ctx, input)
       ELSE /\ _db' = GetDb(_db, DATABASE_URL)
            /\ Read("content.get", ctx, input, GetContentById(_db', input.id))

\* templates.list
TemplatesListCall(ctx, input) ==
    /\ Start
    /\ IF ~Authorized("templates.list", ctx) THEN Reject("templates.list", ctx, input)
       ELSE /\ _db' = GetDb(_db, DATABASE_URL)
            /\ Read("templates.list", ctx, input, GetTemplates(_db'))

\* templates.listByType
TemplatesListByTypeCall(ctx, input) ==
    /\ Start
    /\ IF ~Authorized("templates.listByType", ctx)
       THEN Reject("templates.listByType", ctx, input)
       ELSE /\ _db' = GetDb(_db, DATABASE_URL)
            /\ Read("templates.listByType", ctx, input,
                    GetTemplatesByType(_db', input.contentType))

\* The two ordered messages handed to invokeLLM.
Messages(systemPrompt, prompt) ==
    << [role |-> "system", content |-> systemPrompt],
       [role |-> "user", content |-> prompt] >>

\* Refused without the comparison of the owner.
RefusedAbsentOnly(project, ctx) == project = Absent

\* The ownership check of generate and regenerate refuses the request.
Refused(project, ctx) == project = Absent \/ project[1].userId # ctx.user[1].id

\* content.generate up to its await of invokeLLM: the ownership check, the
\* system prompt, the invocation of the completion service.
ContentGenerateCall(ctx, input) ==
    /\ Start
    /\ IF ~Authorized("content.generate", ctx)
       THEN Reject("content.generate", ctx, input)
       ELSE /\ _db' = GetDb(_db, DATABASE_URL)
            /\ LET project == GetProjectById(_db', input.projectId)
               IN IF Refused(project, ctx)
                  THEN /\ resp' = Resp("content.generate", ctx, input,
                                       "FORBIDDEN", <<>>, Absent)
                       /\ UNCHANGED <<reqs, llmCalls>>
                  ELSE /\ reqs' = Append(reqs,
                              [op |-> "content.generate", ctx |-> ctx,
                               input |-> input, pc |-> "llm", content |-> Absent,
                               messages |->
                                   Messages(SystemPrompt(project[1].contentType,
                                                         input.tone, input.length),
                                            input.prompt)])
                       /\ llmCalls' = llmCalls + 1
                       /\ UNCHANGED resp
            /\ UNCHANGED <<DATABASE_URL, tables>>

\* content.generate when invokeLLM fails: the request fails, nothing is stored.
GenerateFail(i) ==
    /\ reqs[i].op = "content.generate" /\ reqs[i].pc = "llm"
    /\ reqs' = Remove(reqs, i)
    /\ resp' = Resp("content.generate", reqs[i].ctx, reqs[i].input,
                    "INTERNAL_SERVER_ERROR", <<>>, Absent)
    /\ UNCHANGED <<DATABASE_URL, _db, tables, llmCalls, calls>>

\* content.generate from the answer of invokeLLM on: the generated text is
\* extracted and stored as a new row.
GenerateAnswer(i, response) ==
    /\ reqs[i].op = "content.generate" /\ reqs[i].pc = "llm"
    /\ reqs' = Remove(reqs, i)
    /\ LET input == reqs[i].input
           generatedText == GeneratedText(response)
       IN /\ _db' = GetDb(_db, DATABASE_URL)
          /\ LET r == CreateGeneratedContent(_db', input.projectId, input.title,
                                             generatedText, input.prompt,
                                             input.templateId)
             IN /\ generatedContent' = r.table
                /\ regenDone' = IF r.threw THEN regenDone ELSE Append(regenDone, 0)
                /\ resp' = Resp("content.generate", reqs[i].ctx, input,
                                IF r.threw THEN "INTERNAL_SERVER_ERROR" ELSE "OK",
                                IF r.threw THEN <<>>
                                ELSE <<[success |-> TRUE, content |-> generatedText]>>,
                                Absent)
    /\ UNCHANGED <<DATABASE_URL, users, projects, templates, llmCalls, calls>>

\* The update set content.update builds: the supplied fields only.
Updates(input) ==
    [f \in {g \in {"content", "title", "status"} : input[g] # Undefined} |-> input[f]]

\* content.update with the ownership check of content.regenerate before the
\* write.
ContentUpdateCallOwned(ctx, input) ==
    /\ Start
    /\ IF ~Authorized("content.update", ctx) THEN Reject("content.update", ctx, input)
       ELSE /\ _db' = GetDb(_db, DATABASE_URL)
            /\ LET content == GetContentById(_db', input.id)
                   denied == /\ content # Absent
                             /\ Refused(GetProjectById(_db', content[1].projectId), ctx)
                   r == UpdateGeneratedContent(_db', input.id, Updates(input))
               IN /\ generatedContent' = IF denied THEN generatedContent ELSE r.table
                  /\ resp' = Resp("content.update", ctx, input,
                                  IF denied THEN "FORBIDDEN"
                                  ELSE IF r.threw THEN "INTERNAL_SERVER_ERROR" ELSE "OK",
                                  IF denied \/ r.threw THEN <<>> ELSE <<Success>>,
                                  Absent)
            /\ UNCHANGED <<DATABASE_URL, users, projects, templates, regenDone,
                           reqs, llmCalls>>

\* content.update
ContentUpdateCall(ctx, input) ==
    /\ Start
    /\ IF ~Authorized("content.update", ctx) THEN Reject("content.update", ctx, input)
       ELSE /\ _db' = GetDb(_db, DATABASE_URL)
            /\ LET r == UpdateGeneratedContent(_db', input.id, Updates(input))
               IN /\ generatedContent' = r.table
                  /\ resp' = Resp("content.update", ctx, input,
                                  IF r.threw THEN "INTERNAL_SERVER_ERROR" ELSE "OK",
                                  IF r.threw THEN <<>> ELSE <<Success>>, Absent)
            /\ UNCHANGED <<DATABASE_URL, users, projects, templates, regenDone,
                           reqs, llmCalls>>

\* content.regenerate up to its await of getProjectById: the row is read.
ContentRegenerateCall(ctx, input) ==
    /\ Start
    /\ IF ~Authorized("content.regenerate", ctx)
       THEN Reject("content.regenerate", ctx, input)
       ELSE /\ _db' = GetDb(_db, DATABASE_URL)
            /\ LET content == GetContentById(_db', input.id)
               IN IF content = Absent
                  THEN /\ resp' = Resp("content.regenerate", ctx, input,
                                       "NOT_FOUND", <<>>, Absent)
                       /\ UNCHANGED reqs
                  ELSE /\ reqs' = Append(reqs,
                              [op |-> "content.regenerate", ctx |-> ctx,
                               input |-> input, pc |-> "project",
                               content |-> content, messages |-> <<>>])
                       /\ UNCHANGED resp
            /\ UNCHANGED <<DATABASE_URL, tables, llmCalls>>

\* content.regenerate from the parent project's read to its await of
\* invokeLLM: the ownership check, the system prompt, the invocation.
RegenerateCheck(i) ==
    /\ reqs[i].op = "content.regenerate" /\ reqs[i].pc = "project"
    /\ _db' = GetDb(_db, DATABASE_URL)
    /\ LET project == GetProjectById(_db', reqs[i].content[1].projectId)
           input == reqs[i].input
       IN IF Refused(project, reqs[i].ctx)
          THEN /\ resp' = Resp("content.regenerate", reqs[i].ctx, input,
                               "FORBIDDEN", <<>>, reqs[i].content)
               /\ reqs' = Remove(reqs, i)
               /\ UNCHANGED llmCalls
          ELSE /\ reqs' = [reqs EXCEPT ![i].pc = "llm",
                              ![i].messages =
                                  Messages(SystemPrompt(project[1].contentType,
                                                        input.tone, input.length),
                                           input.prompt)]
               /\ llmCalls' = llmCalls + 1
               /\ UNCHANGED resp
    /\ UNCHANGED <<DATABASE_URL, tables, calls>>

\* content.regenerate when invokeLLM fails: the request fails, the row is kept.
RegenerateFail(i) ==
    /\ reqs[i].op = "content.regenerate" /\ reqs[i].pc = "llm"
    /\ reqs' = Remove(reqs, i)
    /\ resp' = Resp("content.regenerate", reqs[i].ctx, reqs[i].input,
                    "INTERNAL_SERVER_ERROR", <<>>, reqs[i].content)
    /\ UNCHANGED <<DATABASE_URL, _db, tables, llmCalls, calls>>

\* NextVersion without the increment.
NextVersionKept(readVersion, storedVersion) == readVersion

\* NextVersion as an increment of the stored version (UPDATE ... SET
\* version = version + 1).
NextVersionStored(readVersion, storedVersion) == storedVersion + 1

\* The version content.regenerate writes, from the version it read at its
\* start and the version the row holds when the write is applied.
NextVersion(readVersion, storedVersion) == readVersion + 1

\* content.regenerate from the answer of invokeLLM on: content, prompt and
\* version are written onto the row.
RegenerateAnswer(i, response) ==
    /\ reqs[i].op = "content.regenerate" /\ reqs[i].pc = "llm"
    /\ reqs' = Remove(reqs, i)
    /\ LET input == reqs[i].input
           content == reqs[i].content[1]
           generatedText == GeneratedText(response)
       IN /\ _db' = GetDb(_db, DATABASE_URL)
          /\ LET r == UpdateGeneratedContent(_db', input.id,
                         [content |-> generatedText, prompt |-> input.prompt,
                          version |-> NextVersion(content.version,
                                                  generatedContent[input.id].version)])
             IN /\ generatedContent' = r.table
                /\ regenDone' = IF r.threw THEN regenDone
                                ELSE [regenDone EXCEPT ![input.id] = @ + 1]
                /\ resp' = Resp("content.regenerate", reqs[i].ctx, input,
                                IF r.threw THEN "INTERNAL_SERVER_ERROR" ELSE "OK",
                                IF r.threw THEN <<>>
                                ELSE <<[success |-> TRUE, content |-> generatedText]>>,
                                reqs[i].content)
    /\ UNCHANGED <<DATABASE_URL, users, projects, templates, llmCalls, calls>>

\* The sign-in flow stores the user through upsertUser.
SignInCall(ctx, user) ==
    /\ Start
    /\ _db' = IF Truthy(user.openId) THEN GetDb(_db, DATABASE_URL) ELSE _db
    /\ LET r == UpsertUser(_db', user)
       IN /\ users' = r.table
          /\ resp' = Resp("upsertUser", ctx, user,
                          IF r.threw THEN "ERROR" ELSE "OK", <<>>, Absent)
    /\ UNCHANGED <<DATABASE_URL, projects, generatedContent, templates, regenDone,
                   reqs, llmCalls>>

\* The procedures of appRouter.
Procedures ==
    {"auth.me", "auth.logout", "projects.list", "projects.create", "projects.get",
     "content.listByProject", "content.get", "content.generate", "content.update",
     "content.regenerate", "templates.list", "templates.listByType"}

NoInput == <<>>

\* The inputs a procedure is called with.
InputsOf(op) ==
    CASE op = "projects.create" -> ProjectInputs
      [] op = "projects.get" -> {[id |-> i] : i \in IdsOf(projects)}
      [] op = "content.listByProject" -> {[projectId |-> i] : i \in IdsOf(projects)}
      [] op = "content.get" -> {[id |-> i] : i \in IdsOf(generatedContent)}
      [] op = "content.generate" -> GenerateInputs
      [] op = "content.update" -> UpdateInputs
      [] op = "content.regenerate" -> RegenerateInputs
      [] op = "templates.listByType" -> {[contentType |-> t] : t \in {"blog", "social"}}
      [] OTHER -> {NoInput}

\* A call of a procedure, up to its first suspension.
Call(op, ctx, input) ==
    CASE op = "auth.me" -> AuthMeCall(ctx, input)
      [] op = "auth.logout" -> AuthLogoutCall(ctx, input)
      [] op = "projects.list" -> ProjectsListCall(ctx, input)
      [] op = "projects.create" -> ProjectsCreateCall(ctx, input)
      [] op = "projects.get" -> ProjectsGetCall(ctx, input)
      [] op = "content.listByProject" -> ContentListByProjectCall(ctx, input)
      [] op = "content.get" -> ContentGetCall(ctx, input)
      [] op = "content.generate" -> ContentGenerateCall(ctx, input)
      [] op = "content.update" -> ContentUpdateCall(ctx, input)
      [] op = "content.regenerate" -> ContentRegenerateCall(ctx, input)
      [] op = "templates.list" -> TemplatesListCall(ctx, input)
      [] op = "templates.listByType" -> TemplatesListByTypeCall(ctx, input)

AuthMe == \E ctx \in Contexts : AuthMeCall(ctx, NoInput)

AuthLogout == \E ctx \in Contexts : AuthLogoutCall(ctx, NoInput)

ProjectsList == \E ctx \in Contexts : ProjectsListCall(ctx, NoInput)

ProjectsCreate ==
    \E ctx \in Contexts, input \in InputsOf("projects.create") :
        ProjectsCreateCall(ctx, input)

ProjectsGet ==
    \E ctx \in Contexts, input \in InputsOf("projects.get") :
        ProjectsGetCall(ctx, input)

ContentListByProject ==
    \E ctx \in Contexts, input \in InputsOf("content.listByProject") :
        ContentListByProjectCall(ctx, input)

ContentGet ==
    \E ctx \in Contexts, input \in InputsOf("content.get") :
        ContentGetCall(ctx, input)

ContentGenerate ==
    \E ctx \in Contexts, input \in InputsOf("content.generate") :
        ContentGenerateCall(ctx, input)

GenerateComplete ==
    \E i \in DOMAIN reqs :
        GenerateFail(i) \/ \E response \in LLMResponses : GenerateAnswer(i, response)

ContentUpdate ==
    \E ctx \in Contexts, input \in InputsOf("content.update") :
        ContentUpdateCall(ctx, input)

ContentRegenerate ==
    \E ctx \in Contexts, input \in InputsOf("content.regenerate") :
        ContentRegenerateCall(ctx, input)

RegenerateProject == \E i \in DOMAIN reqs : RegenerateCheck(i)

RegenerateComplete ==
    \E i \in DOMAIN reqs :
        RegenerateFail(i) \/ \E response \in LLMResponses : RegenerateAnswer(i, response)

TemplatesList == \E ctx \in Contexts : TemplatesListCall(ctx, NoInput)

TemplatesListByType ==
    \E ctx \in Contexts, input \in InputsOf("templates.listByType") :
        TemplatesListByTypeCall(ctx, input)

SignIn == \E user \in UserInputs : SignInCall([user |-> Absent], user)

Next ==
    \/ AuthMe \/ AuthLogout
    \/ ProjectsList \/ ProjectsCreate \/ ProjectsGet
    \/ ContentListByProject \/ ContentGet
    \/ ContentGenerate \/ GenerateComplete
    \/ ContentUpdate
    \/ ContentRegenerate \/ RegenerateProject \/ RegenerateComplete
    \/ TemplatesList \/ TemplatesListByType
    \/ SignIn

Spec == Init /\ [][Next]_vars

\* The contexts of signed-in callers.
SignedIn == {ctx \in Contexts : RequireUser(ctx)}

\* generate and regenerate called by signed-in users with every shape of tone
\* and length.
ContentGenerateStyled ==
    \E ctx \in SignedIn, input \in StyledGenerateInputs :
        ContentGenerateCall(ctx, input)

ContentRegenerateStyled ==
    \E ctx \in SignedIn, input \in StyledRegenerateInputs :
        ContentRegenerateCall(ctx, input)

NextPrompt ==
    \/ ContentGenerateStyled \/ GenerateComplete
    \/ ContentRegenerateStyled \/ RegenerateProject \/ RegenerateComplete

SpecPrompt == Init /\ [][NextPrompt]_vars

\* ------------------------------------------------------- input validation

\* A value of a call's input as it arrives: a number, a string, or left out.
JsNumber(n) == [typeof |-> "number", number |-> n, string |-> ""]
JsString(s) == [typeof |-> "string", number |-> 0, string |-> s]
JsUndefined == [typeof |-> "undefined", number |-> 0, string |-> ""]

StatusEnum == {"draft", "published", "archived"}

\* Accepts with z.string().min(1) taken as z.string().
AcceptsEmptyStrings(rule, v) ==
    CASE rule = "number" -> v.typeof = "number"
      [] rule = "number.optional" -> v.typeof \in {"number", "undefined"}
      [] rule = "string" -> v.typeof = "string"
      [] rule = "string.min(1)" -> v.typeof = "string"
      [] rule = "string.optional" -> v.typeof \in {"string", "undefined"}
      [] rule = "enum.optional" ->
            v.typeof = "undefined" \/ (v.typeof = "string" /\ v.string \in StatusEnum)

\* Whether a zod rule accepts a value.
Accepts(rule, v) ==
    CASE rule = "number" -> v.typeof = "number"
      [] rule = "number.optional" -> v.typeof \in {"number", "undefined"}
      [] rule = "string" -> v.typeof = "string"
      [] rule = "string.min(1)" -> v.typeof = "string" /\ v.string # ""
      [] rule = "string.optional" -> v.typeof \in {"string", "undefined"}
      [] rule = "enum.optional" ->
            v.typeof = "undefined" \/ (v.typeof = "string" /\ v.string \in StatusEnum)

\* The procedures declared with .input(z.object({...})).
SchemaOps ==
    {"projects.create", "projects.get", "content.listByProject", "content.get",
     "content.generate", "content.update", "content.regenerate",
     "templates.listByType"}

\* The z.object of each procedure: the rule of each key.
InputSchema(op) ==
    CASE op = "projects.create" ->
            [name |-> "string.min(1)", description |-> "string.optional",
             contentType |-> "string.min(1)"]
      [] op = "projects.get" -> [id |-> "number"]
      [] op = "content.listByProject" -> [projectId |-> "number"]
      [] op = "content.get" -> [id |-> "number"]
      [] op = "content.generate" ->
            [projectId |-> "number", title |-> "string.min(1)",
             prompt |-> "string.min(1)", templateId |-> "number.optional",
             tone |-> "string.optional", length |-> "string.optional"]
      [] op = "content.update" ->
            [id |-> "number", content |-> "string.optional",
             title |-> "string.optional", status |-> "enum.optional"]
      [] op = "content.regenerate" ->
            [id |-> "number", prompt |-> "string.min(1)",
             tone |-> "string.optional", length |-> "string.optional"]
      [] op = "templates.listByType" -> [contentType |-> "string"]

\* The input passes the procedure's schema.
Conforms(op, wire) ==
    \A key \in DOMAIN InputSchema(op) : Accepts(InputSchema(op)[key], wire[key])

\* The input the procedure body receives from a conforming call.
Parsed(op, wire) ==
    [key \in DOMAIN InputSchema(op) |->
        IF InputSchema(op)[key] \in {"number", "number.optional"}
        THEN (IF InputSchema(op)[key] = "number" THEN wire[key].number
              ELSE IF wire[key].typeof = "undefined" THEN Absent
              ELSE Some(wire[key].number))
        ELSE (IF wire[key].typeof = "undefined" THEN Undefined ELSE wire[key].string)]

\* An id or a required string as calls send it: well-formed or not.
WireIds == {JsNumber(1), JsString("1")}
WireTexts(text) == {JsString(text), JsString("")}

\* The inputs calls arrive with, conforming and not.
WireInputs(op) ==
    CASE op = "projects.create" ->
            [name : WireTexts("Blog"), description : {JsUndefined},
             contentType : WireTexts("blog")]
      [] op = "projects.get" -> [id : WireIds]
      [] op = "content.listByProject" -> [projectId : WireIds]
      [] op = "content.get" -> [id : WireIds]
      [] op = "content.generate" ->
            [projectId : WireIds, title : WireTexts("T"),
             prompt : WireTexts("write about X"), templateId : {JsUndefined},
             tone : {JsUndefined}, length : {JsUndefined}]
      [] op = "content.update" ->
            [id : WireIds, content : {JsString("Edited")}, title : {JsUndefined},
             status : {JsUndefined, JsString("published"), JsString("deleted")}]
      [] op = "content.regenerate" ->
            [id : WireIds, prompt : WireTexts("new"), tone : {JsUndefined},
             length : {JsUndefined}]
      [] op = "templates.listByType" ->
            [contentType : {JsString("blog"), JsString(""), JsNumber(1)}]

\* The input of a call that was stopped before it was parsed.
Raw(wire) == [raw |-> wire]

\* A call whose input fails the schema: BAD_REQUEST, the body does not run.
BadRequest(op, ctx, wire) ==
    /\ resp' = Resp(op, ctx, Raw(wire), "BAD_REQUEST", <<>>, Absent)
    /\ UNCHANGED <<DATABASE_URL, _db, tables, reqs, llmCalls>>

\* A call stopped before its procedure body: by the tier, else by the schema.
Stopped(op, ctx, wire) ==
    /\ Start
    /\ IF ~Authorized(op, ctx) THEN Reject(op, ctx, Raw(wire))
       ELSE BadRequest(op, ctx, wire)

\* A call reaches its procedure body.
Admitted(op, ctx, wire) == Authorized(op, ctx) /\ Conforms(op, wire)

\* A call as it arrives: the tier, then the schema, then the procedure body.
Request(op, ctx, wire) ==
    IF Admitted(op, ctx, wire) THEN Call(op, ctx, Parsed(op, wire))
    ELSE Stopped(op, ctx, wire)

ProjectsCreateRequest ==
    \E ctx \in Contexts, wire \in WireInputs("projects.create") :
        \/ Admitted("projects.create", ctx, wire)
              /\ ProjectsCreateCall(ctx, Parsed("projects.create", wire))
        \/ ~Admitted("projects.create", ctx, wire) /\ Stopped("projects.create", ctx, wire)

ProjectsGetRequest ==
    \E ctx \in Contexts, wire \in WireInputs("projects.get") :
        \/ Admitted("projects.get", ctx, wire)
              /\ ProjectsGetCall(ctx, Parsed("projects.get", wire))
        \/ ~Admitted("projects.get", ctx, wire) /\ Stopped("projects.get", ctx, wire)

ContentListByProjectRequest ==
    \E ctx \in Contexts, wire \in WireInputs("content.listByProject") :
        \/ Admitted("content.listByProject", ctx, wire)
              /\ ContentListByProjectCall(ctx, Parsed("content.listByProject", wire))
        \/ ~Admitted("content.listByProject", ctx, wire) /\ Stopped("content.listByProject", ctx, wire)

ContentGetRequest ==
    \E ctx \in Contexts, wire \in WireInputs("content.get") :
        \/ Admitted("content.get", ctx, wire)
              /\ ContentGetCall(ctx, Parsed("content.get", wire))
        \/ ~Admitted("content.get", ctx, wire) /\ Stopped("content.get", ctx, wire)

ContentGenerateRequest ==
    \E ctx \in Contexts, wire \in WireInputs("content.generate") :
        \/ Admitted("content.generate", ctx, wire)
              /\ ContentGenerateCall(ctx, Parsed("content.generate", wire))
        \/ ~Admitted("content.generate", ctx, wire) /\ Stopped("content.generate", ctx, wire)

ContentUpdateRequest ==
    \E ctx \in Contexts, wire \in WireInputs("content.update") :
        \/ Admitted("content.update", ctx, wire)
              /\ ContentUpdateCall(ctx, Parsed("content.update", wire))
        \/ ~Admitted("content.update", ctx, wire) /\ Stopped("content.update", ctx, wire)

ContentRegenerateRequest ==
    \E ctx \in Contexts, wire \in WireInputs("content.regenerate") :
        \/ Admitted("content.regenerate", ctx, wire)
              /\ ContentRegenerateCall(ctx, Parsed("content.regenerate", wire))
        \/ ~Admitted("content.regenerate", ctx, wire) /\ Stopped("content.regenerate", ctx, wire)

TemplatesListByTypeRequest ==
    \E ctx \in Contexts, wire \in WireInputs("templates.listByType") :
        \/ Admitted("templates.listByType", ctx, wire)
              /\ TemplatesListByTypeCall(ctx, Parsed("templates.listByType", wire))
        \/ ~Admitted("templates.listByType", ctx, wire) /\ Stopped("templates.listByType", ctx, wire)

NextSchema ==
    \/ ProjectsCreateRequest \/ ProjectsGetRequest
    \/ ContentListByProjectRequest \/ ContentGetRequest
    \/ ContentGenerateRequest \/ GenerateComplete
    \/ ContentUpdateRequest
    \/ ContentRegenerateRequest \/ RegenerateProject \/ RegenerateComplete
    \/ TemplatesListByTypeRequest

SpecSchema == Init /\ [][NextSchema]_vars

\* ---------------------------------------------------------------- claims

\* The caller owns an existing project with this id.
OwnedBy(projectId, ctx) ==
    \E p \in DOMAIN projects :
        projects[p].id = projectId /\ projects[p].userId = ctx.user[1].id

\* A step that starts a call, and the call it starts: a call that suspends is
\* the request the step appends to reqs, any other call is the one whose
\* outcome the step leaves in resp.
CallStarts == calls' = calls + 1

Started ==
    IF Len(reqs') > Len(reqs)
    THEN [op |-> reqs'[Len(reqs')].op, ctx |-> reqs'[Len(reqs')].ctx,
          input |-> reqs'[Len(reqs')].input]
    ELSE [op |-> resp'.op, ctx |-> resp'.ctx, input |-> resp'.input]

\* C1: content.generate by an authenticated caller on a project that is
\* absent or owned by someone else fails with FORBIDDEN; the completion
\* service is not invoked and generatedContent is left as it was.
C1_GenerateForbidden ==
    [][(/\ CallStarts
        /\ Started.op = "content.generate"
        /\ Started.ctx.user # Absent
        /\ ~OwnedBy(Started.input.projectId, Started.ctx)
        /\ ContentGenerateCall(Started.ctx, Started.input))
       => /\ resp'.op = "content.generate"
          /\ resp'.input = Started.input
          /\ resp'.code = "FORBIDDEN"
          /\ llmCalls' = llmCalls
          /\ reqs' = reqs
          /\ generatedContent' = generatedContent]_vars

\* C1 witness: user 1 was refused generate on the stored project of user 2.
C1_Witness ==
    /\ resp.op = "content.generate"
    /\ resp.code = "FORBIDDEN"
    /\ _db
    /\ resp.ctx.user = Some([id |-> 1])
    /\ resp.input.projectId \in DOMAIN projects
    /\ projects[resp.input.projectId].userId = 2
    /\ llmCalls = 0

\* C2: a successful content.regenerate leaves the row with the version it
\* read at its start plus 1, with content the generated text it returns, with
\* prompt the new prompt, and with the title and status the row had.
C2_RegenerateBumpsVersion ==
    [][\A i \in DOMAIN reqs : \A response \in LLMResponses :
          (RegenerateAnswer(i, response) /\ resp'.code = "OK")
          => LET id == reqs[i].input.id
                 read == reqs[i].content[1]
                 row == generatedContent'[id]
             IN /\ row.version = read.version + 1
                /\ row.content = resp'.result[1].content
                /\ row.prompt = reqs[i].input.prompt
                /\ row.title = generatedContent[id].title
                /\ row.status = generatedContent[id].status]_vars

\* C2 witness: a regeneration succeeded and the row is one version further.
C2_Witness ==
    /\ resp.op = "content.regenerate"
    /\ resp.code = "OK"
    /\ generatedContent[resp.input.id].version = resp.snap[1].version + 1
    /\ generatedContent[resp.input.id].prompt = "new"
    /\ generatedContent[resp.input.id].title = "T"

\* C3: in every step the version of every generatedContent row does not
\* decrease, and it grows by exactly 1 in a step that completes a
\* regeneration of the row.
C3_VersionMonotonic ==
    [][\A id \in DOMAIN generatedContent :
          /\ generatedContent'[id].version >= generatedContent[id].version
          /\ regenDone'[id] > regenDone[id]
                => generatedContent'[id].version = generatedContent[id].version + 1
      ]_vars

\* C4: a successful projects.create appends one project owned by the caller,
\* and no step changes the owner of a stored project.
C4_OwnerIsCaller ==
    [][/\ \A p \in DOMAIN projects :
             p \in DOMAIN projects' /\ projects'[p].userId = projects[p].userId
       /\ (/\ CallStarts
           /\ Started.op = "projects.create"
           /\ Started.ctx.user # Absent
           /\ ProjectsCreateCall(Started.ctx, Started.input)
           /\ resp'.code = "OK")
          => /\ Len(projects') = Len(projects) + 1
             /\ projects'[Len(projects')].userId = Started.ctx.user[1].id
             /\ projects'[Len(projects')].name = Started.input.name
             /\ projects'[Len(projects')].contentType = Started.input.contentType
      ]_vars

\* C4 witness: user 2 created a project and owns it.
C4_Witness ==
    /\ resp.op = "projects.create"
    /\ resp.code = "OK"
    /\ resp.ctx.user = Some([id |-> 2])
    /\ projects[Len(projects)].userId = 2
    /\ projects[Len(projects)].name = resp.input.name

\* The row content.update is to leave: the supplied fields replaced.
Updated(row, input) ==
    [f \in DOMAIN row |->
        IF f \in {"content", "title", "status"} /\ input[f] # Undefined
        THEN input[f] ELSE row[f]]

\* C5: with the store available, content.update by an authenticated caller
\* succeeds and replaces exactly the supplied fields of the row; with no
\* field supplied it succeeds and leaves the row as it was.
C5_PartialUpdate ==
    [][(/\ CallStarts
        /\ Started.op = "content.update"
        /\ Started.ctx.user # Absent
        /\ _db'
        /\ ContentUpdateCall(Started.ctx, Started.input))
       => /\ resp'.code = "OK"
          /\ DOMAIN generatedContent' = DOMAIN generatedContent
          /\ \A id \in DOMAIN generatedContent :
                generatedContent'[id] =
                    IF id = Started.input.id
                    THEN Updated(generatedContent[id], Started.input)
                    ELSE generatedContent[id]]_vars

\* A template is among the rows the last call returned.
Returned(t) == \E k \in DOMAIN resp.result : resp.result[k] = t

\* C6: with the store available, templates.listByType returns exactly the
\* public templates of the content type asked for.
C6_ListByTypeFilters ==
    (resp.op = "templates.listByType" /\ resp.code = "OK" /\ _db)
    => \A k \in DOMAIN templates :
          Returned(templates[k])
          <=> (/\ templates[k].isPublic = 1
               /\ templates[k].contentType = resp.input.contentType)

\* What a call without identity does: the procedures of PublicOps succeed,
\* every other one fails with UNAUTHORIZED and touches nothing.
AnonymousCalls(PublicOps) ==
    (/\ CallStarts
     /\ Started.op \in Procedures
     /\ Started.ctx.user = Absent
     /\ Call(Started.op, Started.ctx, Started.input))
    => IF Started.op \in PublicOps
       THEN resp'.op = Started.op /\ resp'.code = "OK"
       ELSE /\ resp'.op = Started.op /\ resp'.code = "UNAUTHORIZED"
            /\ UNCHANGED <<_db, tables, reqs, llmCalls>>

\* C7 as stated: without identity only templates.list and
\* templates.listByType succeed, every other procedure, auth.me and
\* auth.logout included, fails with UNAUTHORIZED.
C7_OnlyTemplatesPublic ==
    [][AnonymousCalls({"templates.list", "templates.listByType"})]_vars

\* C7 amended: without identity auth.me, auth.logout, templates.list and
\* templates.listByType succeed; every procedure of projects and content
\* fails with UNAUTHORIZED before its body runs.
C7_ProtectedNeedIdentity ==
    [][AnonymousCalls({"auth.me", "auth.logout", "templates.list",
                       "templates.listByType"})]_vars

\* C7 witness: content.regenerate without identity was rejected.
C7_Witness ==
    /\ resp.op = "content.regenerate"
    /\ resp.ctx.user = Absent
    /\ resp.code = "UNAUTHORIZED"
    /\ reqs = <<>>

\* C8: a successful content.generate appends exactly one row that carries the
\* input's projectId, title and prompt, status draft and version 1, and whose
\* content is the text returned: the first choice's message text when it is a
\* string, otherwise "No content generated".
C8_GenerateStoresDraft ==
    [][\A i \in DOMAIN reqs : \A response \in LLMResponses :
          (GenerateAnswer(i, response) /\ resp'.code = "OK")
          => LET input == reqs[i].input
                 n == Len(generatedContent)
                 row == generatedContent'[n + 1]
                 text == resp'.result[1].content
             IN /\ Len(generatedContent') = n + 1
                /\ SubSeq(generatedContent', 1, n) = generatedContent
                /\ row.projectId = input.projectId
                /\ row.title = input.title
                /\ row.prompt = input.prompt
                /\ row.status = "draft"
                /\ row.version = 1
                /\ row.content = text
                /\ text = IF /\ Len(response.choices) > 0
                             /\ response.choices[1].message.content.type = "string"
                          THEN response.choices[1].message.content.text
                          ELSE "No content generated"]_vars

\* C8 witness: a generate whose answer held no text stored the fallback.
C8_Witness ==
    /\ resp.op = "content.generate"
    /\ resp.code = "OK"
    /\ resp.result[1].content = "No content generated"
    /\ generatedContent[Len(generatedContent)].content = "No content generated"
    /\ generatedContent[Len(generatedContent)].version = 1
    /\ generatedContent[Len(generatedContent)].projectId = resp.input.projectId

\* C9: when a regenerate of a row has just succeeded from version v, and a
\* second regenerate of the same row that had also read version v before
\* that write now succeeds, the row ends at version v + 1: both succeeded
\* and the version is only 1 above its starting value.
C9_LostUpdate ==
    [][\A i \in DOMAIN reqs : \A response \in LLMResponses :
          (/\ resp.op = "content.regenerate"
           /\ resp.code = "OK"
           /\ reqs[i].op = "content.regenerate"
           /\ reqs[i].input.id = resp.input.id
           /\ reqs[i].content[1].version = resp.snap[1].version
           /\ generatedContent[resp.input.id].version = resp.snap[1].version + 1
           /\ RegenerateAnswer(i, response))
          => /\ resp'.code = "OK"
             /\ regenDone'[resp.input.id] = regenDone[resp.input.id] + 1
             /\ generatedContent'[resp.input.id].version
                    = resp.snap[1].version + 1]_vars

\* C9 witness: two regenerations of a row completed and its version is 2.
C9_Witness ==
    \E id \in DOMAIN generatedContent :
        /\ regenDone[id] = 2
        /\ generatedContent[id].version = DefaultVersion + 1
        /\ resp.op = "content.regenerate"
        /\ resp.code = "OK"
        /\ resp.input.id = id

ReadOps ==
    {"projects.list", "projects.get", "content.listByProject", "content.get",
     "templates.list", "templates.listByType"}

\* What the storage accessor does for a caller with no handle: each read
\* returns an empty list or an absent value, createProject,
\* updateGeneratedContent and createGeneratedContent fail and write nothing,
\* and upsertUser of a user with an openId writes nothing and ends with
\* upsertOutcome.
WithoutStore(upsertOutcome) ==
    /\ (/\ CallStarts
        /\ ~_db'
        /\ Started.op \in Procedures
        /\ Started.ctx.user # Absent
        /\ Call(Started.op, Started.ctx, Started.input))
       => /\ Started.op \in ReadOps => resp'.code = "OK" /\ resp'.result = <<>>
          /\ Started.op \in {"projects.create", "content.update"}
                => resp'.code = "INTERNAL_SERVER_ERROR" /\ UNCHANGED tables
    /\ (/\ CallStarts
        /\ ~_db'
        /\ Started.op = "upsertUser"
        /\ Truthy(Started.input.openId)
        /\ SignInCall(Started.ctx, Started.input))
       => (resp'.code = "OK") = (upsertOutcome = "returns") /\ UNCHANGED tables
    /\ ~GetDb(_db, DATABASE_URL)
          => \A input \in GenerateInputs :
                LET r == CreateGeneratedContent(GetDb(_db, DATABASE_URL),
                             input.projectId, input.title, "Hello", input.prompt,
                             input.templateId)
                IN r.threw /\ r.table = generatedContent

Stored(contentId) ==
    \E c \in DOMAIN generatedContent : generatedContent[c].id = contentId

\* C11: content.regenerate by an authenticated caller fails with NOT_FOUND
\* when no row has the id, and proceeds to the check of the parent project
\* when the row is read; that check fails the request with FORBIDDEN when the
\* project is absent or owned by someone else.  In both failures the
\* completion service is not invoked and generatedContent is left as it was.
C11_RegenerateRefuses ==
    [][/\ (/\ CallStarts
           /\ Started.op = "content.regenerate"
           /\ Started.ctx.user # Absent
           /\ ContentRegenerateCall(Started.ctx, Started.input))
          => IF ~Stored(Started.input.id)
             THEN /\ resp'.op = "content.regenerate"
                  /\ resp'.input = Started.input
                  /\ resp'.code = "NOT_FOUND"
                  /\ reqs' = reqs
                  /\ llmCalls' = llmCalls
                  /\ generatedContent' = generatedContent
             ELSE _db' => /\ Len(reqs') = Len(reqs) + 1
                          /\ reqs'[Len(reqs')].pc = "project"
                          /\ resp' = resp
                          /\ llmCalls' = llmCalls
       /\ \A i \in DOMAIN reqs :
             (/\ reqs[i].op = "content.regenerate"
              /\ reqs[i].pc = "project"
              /\ ~OwnedBy(reqs[i].content[1].projectId, reqs[i].ctx)
              /\ RegenerateCheck(i))
             => /\ resp'.op = "content.regenerate"
                /\ resp'.input = reqs[i].input
                /\ resp'.code = "FORBIDDEN"
                /\ reqs' = Remove(reqs, i)
                /\ llmCalls' = llmCalls
                /\ generatedContent' = generatedContent
       /\ \A ctx \in Contexts : ctx.user # Absent => Refused(Absent, ctx)
      ]_vars

\* C11 witness: user 1 was refused the regeneration of a row in the project
\* of user 2; no completion was asked for and the row is as it was read.
C11_Witness ==
    /\ resp.op = "content.regenerate"
    /\ resp.code = "FORBIDDEN"
    /\ resp.ctx.user = Some([id |-> 1])
    /\ projects[resp.snap[1].projectId].userId = 2
    /\ llmCalls = 0
    /\ generatedContent[resp.input.id] = resp.snap[1]

\* The instruction the claim describes: the base instruction naming the
\* content type, then the tone clause when tone counts as present, then the
\* length clause when length counts as present.
Instruction(contentType, tone, tonePresent, length, lengthPresent) ==
    ("You are an expert content creator. Generate high-quality "
        \o contentType \o " content.")
    \o (IF tonePresent THEN " Use a " \o tone \o " tone." ELSE "")
    \o (IF lengthPresent THEN " Keep it " \o length \o "." ELSE "")

\* The project whose contentType a pending request is to name: the project of
\* the input for generate, the parent project of the row read for regenerate.
ProjectOf(req) ==
    IF req.op = "content.generate" THEN projects[req.input.projectId]
    ELSE projects[req.content[1].projectId]

\* C12 as stated: the system message handed to the completion service carries
\* the tone clause iff a tone is supplied and the length clause iff a length
\* is supplied.
C12_ClausesIffSupplied ==
    \A i \in DOMAIN reqs :
        reqs[i].pc = "llm"
        => reqs[i].messages[1].content =
              Instruction(ProjectOf(reqs[i]).contentType,
                          reqs[i].input.tone, reqs[i].input.tone # Undefined,
                          reqs[i].input.length, reqs[i].input.length # Undefined)

\* C12 amended: the system message handed to the completion service is the
\* base instruction naming the contentType of the project (for regenerate the
\* parent project of the row), then " Use a {tone} tone." iff a non-empty tone
\* is supplied, then " Keep it {length}." iff a non-empty length is supplied;
\* it is the first of two messages, the second being the user's prompt.
C12_ClausesIffNonEmpty ==
    /\ \A contentType \in {"blog", "social"} :
       \A tone \in OptionalStrings("casual"), length \in OptionalStrings("short") :
          SystemPrompt(contentType, tone, length) =
              Instruction(contentType, tone, tone \notin {Undefined, ""},
                          length, length \notin {Undefined, ""})
    /\ \A i \in DOMAIN reqs :
        reqs[i].pc = "llm"
        => /\ reqs[i].messages[1].role = "system"
           /\ reqs[i].messages[1].content =
                 Instruction(ProjectOf(reqs[i]).contentType,
                             reqs[i].input.tone,
                             reqs[i].input.tone \notin {Undefined, ""},
                             reqs[i].input.length,
                             reqs[i].input.length \notin {Undefined, ""})
           /\ reqs[i].messages[2] = [role |-> "user", content |-> reqs[i].input.prompt]

\* C12 witness: a regenerate of a row of the social project with a casual tone
\* and no length waits for the completion service with the tone clause only.
C12_Witness ==
    \E i \in DOMAIN reqs :
        /\ reqs[i].op = "content.regenerate"
        /\ reqs[i].pc = "llm"
        /\ reqs[i].input.tone = "casual"
        /\ reqs[i].input.length = Undefined
        /\ reqs[i].messages[1].content =
              "You are an expert content creator. Generate high-quality social content. Use a casual tone."

\* The keys a procedure requires to be non-empty strings.
RequiredText(op) ==
    CASE op = "projects.create" -> {"name", "contentType"}
      [] op = "content.generate" -> {"title", "prompt"}
      [] op = "content.regenerate" -> {"prompt"}
      [] OTHER -> {}

\* The input violates the schema of its operation: a required string that is
\* empty or no string, an id that is no number, a status outside
\* draft/published/archived, a content type to list by that is no string.
ViolatesSchema(op, wire) ==
    \/ \E key \in RequiredText(op) :
          wire[key].typeof # "string" \/ wire[key].string = ""
    \/ \E key \in DOMAIN wire \cap {"id", "projectId"} : wire[key].typeof # "number"
    \/ /\ "status" \in DOMAIN wire
       /\ wire.status.typeof # "undefined"
       /\ wire.status.typeof # "string"
             \/ wire.status.string \notin {"draft", "published", "archived"}
    \/ op = "templates.listByType" /\ wire.contentType.typeof # "string"

C14_UpdateUnchecked ==
    [][IF CallStarts
       THEN LET call == Started
                stranger == call.ctx.user # Absent /\ _db'
            IN /\ (/\ call.op = "content.update"
                   /\ stranger
                   /\ Stored(call.input.id)
                   /\ ~OwnedBy(generatedContent[call.input.id].projectId, call.ctx)
                   /\ \E f \in {"content", "title", "status"} :
                         call.input[f] # Undefined
                   /\ ContentUpdateCall(call.ctx, call.input))
                  => /\ resp'.code = "OK"
                     /\ generatedContent'[call.input.id] =
                           Updated(generatedContent[call.input.id], call.input)
               /\ (/\ call.op = "content.generate"
                   /\ stranger
                   /\ call.input.projectId \in DOMAIN projects
                   /\ ~OwnedBy(call.input.projectId, call.ctx)
                   /\ ContentGenerateCall(call.ctx, call.input))
                  => resp'.op = "content.generate" /\ resp'.code = "FORBIDDEN"
       ELSE \A i \in DOMAIN reqs :
               (/\ reqs[i].op = "content.regenerate"
                /\ reqs[i].pc = "project"
                /\ ~OwnedBy(reqs[i].content[1].projectId, reqs[i].ctx)
                /\ RegenerateCheck(i))
               => resp'.op = "content.regenerate" /\ resp'.code = "FORBIDDEN"
      ]_vars

\* C14 witness: user 1 has edited and published the row of user 2's project.
C14_Witness ==
    /\ resp.op = "content.update"
    /\ resp.code = "OK"
    /\ resp.ctx.user = Some([id |-> 1])
    /\ resp.input.id \in DOMAIN generatedContent
    /\ projects[generatedContent[resp.input.id].projectId].userId = 2
    /\ generatedContent[resp.input.id].content = "Edited"
    /\ generatedContent[resp.input.id].status = "published"

====
